---- MODULE Spec2Model ----
(***************************************************************************)
(* Model of lib/middlewares/src/metering.rs: the Metering module           *)
(* middleware (transform_module_info, generate_function_middleware), the   *)
(* FunctionMetering rewriter (feed), the runtime accessors, and the        *)
(* execution of the rewritten function bodies against the remaining-points *)
(* global.                                                                 *)
(*                                                                         *)
(* The specifications share the definitions:                               *)
(*   SpecFeed       the rewriter fed arbitrary operator sequences;         *)
(*   SpecCoord      threads calling the module-level middleware;           *)
(*   Spec           a transformed, instantiated module executing its code; *)
(*   SpecLive       Spec with a fair engine;                               *)
(*   SpecHost       Spec with a host that refills the budget;              *)
(*   SpecAccess     a host calling the accessors on an instance;           *)
(*   SpecTwo        two modules, each with a Metering of its own;          *)
(*   SpecFunctions  the functions of one module rewritten in parallel.     *)
(***************************************************************************)
EXTENDS Integers, Sequences, FiniteSets, TLC

VARIABLES
    \* ---- FunctionMetering (one rewriter) and its MiddlewareReaderState
    cost_function,            \* which cost function the Metering was built with
    overflow_checks,    \* build profile: TRUE = `+=` panics on overflow, FALSE = wraps
    fm,                 \* the FunctionMetering struct
    input,              \* operators fed so far
    output,             \* operators the reader state holds (extend / push_operator)
    fstatus,            \* "ok" | "panicked" (feed aborted the compilation)
    \* ---- Metering and the ModuleInfo values it is applied to
    initial_limit,
    remaining_points_index,  \* Option<GlobalIndex>: <<>> is None, <<i>> is Some(i)
    mutex,              \* holder of the Mutex (0 = free)
    poisoned,           \* the Mutex was held by a panicking thread
    tpc,                \* per thread: position inside transform_module_info
    tmod,               \* per thread: the module_info it was handed
    tidx,               \* per thread: the local `global_index`
    module_info,        \* per module: the ModuleInfo
    orig_info,          \* per module: the ModuleInfo before any transform (history)
    tstart_info,        \* per thread: its ModuleInfo when the call began (history)
    assignments,        \* how many times the slot was written (history)
    rewriters,          \* FunctionMetering values generate_function_middleware returned
    gfm_panicked,       \* some generate_function_middleware call panicked
    \* ---- an Instance and the execution of its code
    instance,           \* the Instance: exports, global types, global values
    code,               \* per function: the rewritten body
    status,             \* "idle" | "running" | "returned" | "trapped"
    frames,             \* call stack: <<[fn, pc, ctrl, base, local]>>
    stack,              \* operand stack
    start_points,       \* budget when the current call began (history)
    executed_cost,      \* cost of the original operators the call executed (history)
    passed_cost,        \* sum of the costs whose guard the call passed (history)
    block_start_points, \* budget when the current basic block was entered (history)
    at_edge,            \* the last step took a control-flow edge of the original code
    after_refill,       \* set_remaining_points was called after a call trapped (history)
    host_panicked,      \* an accessor panicked in the host
    observed,           \* what the last get_remaining_points returned: <<>> or <<v>>
    \* ---- two modules, each compiled with a Metering of its own
    meterings,          \* per Metering: limit, cost function, slot, poison flag
    worlds,             \* per module: ModuleInfo, compilation state, code, Instance
    solo,               \* per module: the same, in a run without the other module
    \* ---- the functions of one module, each rewritten by a rewriter of its own
    function_bodies,    \* per function: the operators the compiler reads
    function_meterings, \* per rewriter: None, or the FunctionMetering struct
    reader_states       \* per function: operators fed, and the reader state's queue

feedVars  == <<cost_function, overflow_checks, fm, input, output, fstatus>>
coordVars == <<initial_limit, remaining_points_index, mutex, poisoned, tpc, tmod, tidx,
               module_info, orig_info, tstart_info, assignments, rewriters, gfm_panicked>>
execVars  == <<instance, code, status, frames, stack, start_points, executed_cost,
               passed_cost, block_start_points, at_edge, after_refill, host_panicked,
               observed>>
isoVars   == <<meterings, worlds, solo>>
parVars   == <<function_bodies, function_meterings, reader_states>>
vars      == <<feedVars, coordVars, execVars, isoVars, parVars>>

(***************************************************************************)
(* 64-bit integers, scaled to WordBits bits.  u64 values are 0..Modulus-1, *)
(* i64 values are -Half..Half-1; `as` casts keep the bit pattern.          *)
(***************************************************************************)
WordBits == 4

Modulus == 2 ^ WordBits

Half == 2 ^ (WordBits - 1)

U64 == 0 .. (Modulus - 1)

\* `x as i64` for a u64 x
AsI64(u) == IF u >= Half THEN u - Modulus ELSE u

\* `x as u64` for an i64 x
AsU64(i) == IF i < 0 THEN i + Modulus ELSE i

\* two's-complement wrap of a mathematical integer into i64
WrapI64(n) == AsI64(n % Modulus)

(***************************************************************************)
(* Operators (wasmparser::Operator), by kind and immediate.                *)
(***************************************************************************)
Op(k) == [k |-> k, a |-> 0]

OpA(k, a) == [k |-> k, a |-> a]

BoundaryKinds ==
    {"Loop", "End", "Else", "Br", "BrTable", "BrIf", "Call", "CallIndirect", "Return"}

\* The boundary test without the branch sources and the loop header.
IsBoundaryWithoutBranches(op) ==
    op.k \in {"End", "Else", "Call", "CallIndirect", "Return"}

\* The boundary test with `if` among the boundaries.
IsBoundaryWithIf(op) == op.k \in BoundaryKinds \cup {"If"}

IsBoundary(op) == op.k \in BoundaryKinds

\* The cost functions a Metering may be built with.
\*   1: the one of the tests; 2: every operator costs 1; 3: everything is free;
\*   4: constants cost 2^63 (scaled), the rest is free.
CostFns == 1 .. 4

Cost(cf, op) ==
    CASE cf = 1 -> (IF op.k \in {"LocalGet", "I32Const"} THEN 1
                    ELSE IF op.k = "I32Add" THEN 2 ELSE 0)
      [] cf = 2 -> 1
      [] cf = 3 -> 0
      [] OTHER  -> (IF op.k = "I32Const" THEN Half ELSE 0)

(***************************************************************************)
(* FunctionMetering::feed                                                  *)
(***************************************************************************)
\* An element of the reader state's operator queue.  `inj` records whether
\* the element came from state.extend (injected) or state.push_operator.
Emit(op, inj) == [op |-> op, inj |-> inj]

\* The sequence with a signed comparison in the guard.
MeteringSequenceSignedGuard(idx, acc) ==
    << Emit(OpA("GlobalGet", idx), TRUE),
       Emit(OpA("I64Const", AsI64(acc)), TRUE),
       Emit(Op("I64LtS"), TRUE),
       Emit(Op("If"), TRUE),
       Emit(Op("Unreachable"), TRUE),
       Emit(Op("End"), TRUE),
       Emit(OpA("GlobalGet", idx), TRUE),
       Emit(OpA("I64Const", AsI64(acc)), TRUE),
       Emit(Op("I64Sub"), TRUE),
       Emit(OpA("GlobalSet", idx), TRUE) >>

\* The sequence with the deduction ahead of the guard.
MeteringSequenceDeductFirst(idx, acc) ==
    << Emit(OpA("GlobalGet", idx), TRUE),
       Emit(OpA("I64Const", AsI64(acc)), TRUE),
       Emit(Op("I64Sub"), TRUE),
       Emit(OpA("GlobalSet", idx), TRUE),
       Emit(OpA("GlobalGet", idx), TRUE),
       Emit(OpA("I64Const", AsI64(acc)), TRUE),
       Emit(Op("I64LtU"), TRUE),
       Emit(Op("If"), TRUE),
       Emit(Op("Unreachable"), TRUE),
       Emit(Op("End"), TRUE) >>

\* The sequence whose deduction is built after accumulated_cost was reset.
MeteringSequenceStaleCost(idx, acc) ==
    << Emit(OpA("GlobalGet", idx), TRUE),
       Emit(OpA("I64Const", AsI64(acc)), TRUE),
       Emit(Op("I64LtU"), TRUE),
       Emit(Op("If"), TRUE),
       Emit(Op("Unreachable"), TRUE),
       Emit(Op("End"), TRUE),
       Emit(OpA("GlobalGet", idx), TRUE),
       Emit(OpA("I64Const", 0), TRUE),
       Emit(Op("I64Sub"), TRUE),
       Emit(OpA("GlobalSet", idx), TRUE) >>

\* The sequence whose `if` is left open.
MeteringSequenceUnclosed(idx, acc) ==
    << Emit(OpA("GlobalGet", idx), TRUE),
       Emit(OpA("I64Const", AsI64(acc)), TRUE),
       Emit(Op("I64LtU"), TRUE),
       Emit(Op("If"), TRUE),
       Emit(Op("Unreachable"), TRUE),
       Emit(Op("Nop"), TRUE),
       Emit(OpA("GlobalGet", idx), TRUE),
       Emit(OpA("I64Const", AsI64(acc)), TRUE),
       Emit(Op("I64Sub"), TRUE),
       Emit(OpA("GlobalSet", idx), TRUE) >>

\* state.extend(&[...]): the guard, then the deduction.
MeteringSequence(idx, acc) ==
    << Emit(OpA("GlobalGet", idx), TRUE),
       Emit(OpA("I64Const", AsI64(acc)), TRUE),
       Emit(Op("I64LtU"), TRUE),
       Emit(Op("If"), TRUE),
       Emit(Op("Unreachable"), TRUE),
       Emit(Op("End"), TRUE),
       Emit(OpA("GlobalGet", idx), TRUE),
       Emit(OpA("I64Const", AsI64(acc)), TRUE),
       Emit(Op("I64Sub"), TRUE),
       Emit(OpA("GlobalSet", idx), TRUE) >>

\* The operator pushed ahead of the sequence injected for it.
FeedOutputOperatorFirst(idx, acc, op) ==
    IF IsBoundary(op) /\ acc > 0
    THEN << Emit(op, FALSE) >> \o MeteringSequence(idx, acc)
    ELSE << Emit(op, FALSE) >>

\* The sequence injected at every boundary, also when nothing accumulated.
FeedOutputAtEveryBoundary(idx, acc, op) ==
    IF IsBoundary(op)
    THEN MeteringSequence(idx, acc) \o << Emit(op, FALSE) >>
    ELSE << Emit(op, FALSE) >>

\* What one feed call appends to the reader state, given the accumulated
\* cost after adding the operator's own cost.
FeedOutput(idx, acc, op) ==
    IF IsBoundary(op) /\ acc > 0
    THEN MeteringSequence(idx, acc) \o << Emit(op, FALSE) >>
    ELSE << Emit(op, FALSE) >>

\* accumulated_cost after the call.
FeedAccumulated(acc, op) ==
    IF IsBoundary(op) /\ acc > 0 THEN 0 ELSE acc

\* `self.accumulated_cost += cost` overflows u64
FeedOverflows(f, cf, op) == f.accumulated_cost + Cost(cf, op) >= Modulus

\* The call with the operator's cost added behind the boundary check.
FeedStepCostAfterCheck(f, cf, op) ==
    LET acc == f.accumulated_cost
    IN  [fm  |-> [f EXCEPT !.accumulated_cost =
                               (FeedAccumulated(acc, op) + Cost(cf, op)) % Modulus],
         out |-> FeedOutput(f.remaining_points_index, acc, op)]

\* The call as a function of the rewriter: new rewriter and appended output
\* (wrapping addition; the overflow check is the caller's).
FeedStep(f, cf, op) ==
    LET acc == (f.accumulated_cost + Cost(cf, op)) % Modulus
    IN  [fm  |-> [f EXCEPT !.accumulated_cost = FeedAccumulated(acc, op)],
         out |-> FeedOutput(f.remaining_points_index, acc, op)]

\* A whole function body through one fresh rewriter.
RECURSIVE RewriteFrom(_, _, _, _)
RewriteFrom(f, cf, body, i) ==
    IF i > Len(body) THEN << >>
    ELSE LET r == FeedStep(f, cf, body[i])
         IN  r.out \o RewriteFrom(r.fm, cf, body, i + 1)

\* A rewriter that takes the module's first global for the budget.
NewFunctionMeteringFirstGlobal(idx) == [remaining_points_index |-> 0, accumulated_cost |-> 0]

NewFunctionMetering(idx) == [remaining_points_index |-> idx, accumulated_cost |-> 0]

Rewrite(idx, cf, body) == RewriteFrom(NewFunctionMetering(idx), cf, body, 1)

(***************************************************************************)
(* ModuleInfo, and Metering::transform_module_info on it.                  *)
(***************************************************************************)
REMAINING_POINTS_NAME == "remaining_points"

GlobalType(ty, mutability) == [ty |-> ty, mutability |-> mutability]

GlobalInit(k, v) == [k |-> k, v |-> v]

ExportIndex(kind, index) == [kind |-> kind, index |-> index]

Export(name, index) == [name |-> name, index |-> index]

\* The ModuleInfo values a compilation may hand to the middleware:
\*   1: the module of the tests' bytecode(): one exported function;
\*   2: the module of metering_overrides_export_name: an f32 global exported
\*      as "remaining_points";
\*   3: an imported global, a local one, a function exported as "remaining_points";
\*   4: a mutable i64 global already exported as "remaining_points".
ModuleInfos ==
    << [globals |-> << >>, num_imported_globals |-> 0, global_initializers |-> << >>,
        exports |-> << Export("add_one", ExportIndex("Function", 0)) >>],
       [globals |-> << GlobalType("F32", "Const") >>, num_imported_globals |-> 0,
        global_initializers |-> << GlobalInit("F32Const", 1) >>,
        exports |-> << Export(REMAINING_POINTS_NAME, ExportIndex("Global", 0)) >>],
       [globals |-> << GlobalType("I64", "Var"), GlobalType("I32", "Const") >>,
        num_imported_globals |-> 1,
        global_initializers |-> << GlobalInit("I32Const", 7) >>,
        exports |-> << Export(REMAINING_POINTS_NAME, ExportIndex("Function", 0)),
                       Export("add_one", ExportIndex("Function", 0)) >>],
       [globals |-> << GlobalType("I64", "Var") >>, num_imported_globals |-> 0,
        global_initializers |-> << GlobalInit("I64Const", 3) >>,
        exports |-> << Export("g", ExportIndex("Global", 0)),
                       Export(REMAINING_POINTS_NAME, ExportIndex("Global", 0)),
                       Export("add_one", ExportIndex("Function", 0)) >>] >>

\* Modules the accessors may meet besides those: one exporting an immutable
\* i64 global as "remaining_points", one a mutable i32 global.
AccessInfos ==
    ModuleInfos \o
    << [globals |-> << GlobalType("I64", "Const") >>, num_imported_globals |-> 0,
        global_initializers |-> << GlobalInit("I64Const", 5) >>,
        exports |-> << Export(REMAINING_POINTS_NAME, ExportIndex("Global", 0)) >>],
       [globals |-> << GlobalType("I32", "Var") >>, num_imported_globals |-> 0,
        global_initializers |-> << GlobalInit("I32Const", 5) >>,
        exports |-> << Export(REMAINING_POINTS_NAME, ExportIndex("Global", 0)) >>] >>

NumThreads == 2

Threads == 1 .. NumThreads

Modules == {1, 2}

None == << >>

Some(x) == << x >>

\* remaining_points_index.is_some()
IsSomeUnchecked(slot) == FALSE

IsSome(slot) == slot # None

\* Mutex::lock blocks until no thread holds the guard.
LockAvailableUnsynchronized(m) == TRUE

LockAvailable(m) == m = 0

\* GlobalType::new(Type::I64, Mutability::Var)
RemainingPointsGlobalType == GlobalType("I64", "Var")

\* GlobalInit::I64Const(self.initial_limit as i64)
RemainingPointsInitZero(limit) == GlobalInit("I64Const", 0)

RemainingPointsInit(limit) == GlobalInit("I64Const", AsI64(limit))

\* PrimaryMap::push returns the key of the pushed element: the old length.
NextGlobalIndex(info) == Len(info.globals)

PushGlobal(info) ==
    [info EXCEPT !.globals = Append(@, RemainingPointsGlobalType)]

PushGlobalInitializer(info, limit) ==
    [info EXCEPT !.global_initializers = Append(@, RemainingPointsInit(limit))]

\* IndexMap::insert: an existing key keeps its position and gets the new
\* value; a new key is appended.
IndexMapInsertAppending(exports, name, index) == Append(exports, Export(name, index))

IndexMapInsert(exports, name, index) ==
    IF \E i \in DOMAIN exports : exports[i].name = name
    THEN [i \in DOMAIN exports |->
            IF exports[i].name = name THEN Export(name, index) ELSE exports[i]]
    ELSE Append(exports, Export(name, index))

InsertExport(info, global_index) ==
    [info EXCEPT !.exports =
        IndexMapInsert(@, REMAINING_POINTS_NAME, ExportIndex("Global", global_index))]

\* The whole of a successful transform_module_info.
TransformedInfo(info, limit) ==
    InsertExport(PushGlobalInitializer(PushGlobal(info), limit), NextGlobalIndex(info))

\* `&mut ModuleInfo` is exclusive: no other call is running on module m.
Borrowable(m) ==
    \A u \in Threads : tpc[u] \in {"idle", "done", "panicked"} \/ tmod[u] # m

\* let mut remaining_points_index = self.remaining_points_index.lock().unwrap();
TmiLock(t, m) ==
    /\ tpc[t] = "idle"
    /\ Borrowable(m)
    /\ LockAvailable(mutex)
    /\ tmod' = [tmod EXCEPT ![t] = m]
    /\ tstart_info' = [tstart_info EXCEPT ![t] = module_info[m]]
    /\ IF poisoned
       THEN /\ tpc' = [tpc EXCEPT ![t] = "panicked"]
            /\ UNCHANGED mutex
       ELSE /\ tpc' = [tpc EXCEPT ![t] = "locked"]
            /\ mutex' = t
    /\ UNCHANGED <<initial_limit, remaining_points_index, poisoned, tidx, module_info,
                   orig_info, assignments, rewriters, gfm_panicked>>
    /\ UNCHANGED <<feedVars, execVars, isoVars, parVars>>

\* if remaining_points_index.is_some() { panic!(...) }
\* The panic unwinds through the guard: the mutex is released and poisoned.
TmiCheck(t) ==
    /\ tpc[t] = "locked"
    /\ IF IsSome(remaining_points_index)
       THEN /\ tpc' = [tpc EXCEPT ![t] = "panicked"]
            /\ mutex' = 0
            /\ poisoned' = TRUE
       ELSE /\ tpc' = [tpc EXCEPT ![t] = "checked"]
            /\ UNCHANGED <<mutex, poisoned>>
    /\ UNCHANGED <<initial_limit, remaining_points_index, tmod, tidx, module_info,
                   orig_info, tstart_info, assignments, rewriters, gfm_panicked>>
    /\ UNCHANGED <<feedVars, execVars, isoVars, parVars>>

\* let global_index = module_info.globals.push(GlobalType::new(..));
TmiPushGlobal(t) ==
    /\ tpc[t] = "checked"
    /\ tidx' = [tidx EXCEPT ![t] = NextGlobalIndex(module_info[tmod[t]])]
    /\ module_info' = [module_info EXCEPT ![tmod[t]] = PushGlobal(@)]
    /\ tpc' = [tpc EXCEPT ![t] = "pushed"]
    /\ UNCHANGED <<initial_limit, remaining_points_index, mutex, poisoned, tmod,
                   orig_info, tstart_info, assignments, rewriters, gfm_panicked>>
    /\ UNCHANGED <<feedVars, execVars, isoVars, parVars>>

\* *remaining_points_index = Some(global_index.clone());
TmiAssign(t) ==
    /\ tpc[t] = "pushed"
    /\ remaining_points_index' = Some(tidx[t])
    /\ assignments' = assignments + 1
    /\ tpc' = [tpc EXCEPT ![t] = "assigned"]
    /\ UNCHANGED <<initial_limit, mutex, poisoned, tmod, tidx, module_info,
                   orig_info, tstart_info, rewriters, gfm_panicked>>
    /\ UNCHANGED <<feedVars, execVars, isoVars, parVars>>

\* module_info.global_initializers.push(GlobalInit::I64Const(..));
TmiPushInit(t) ==
    /\ tpc[t] = "assigned"
    /\ module_info' = [module_info EXCEPT
                         ![tmod[t]] = PushGlobalInitializer(@, initial_limit)]
    /\ tpc' = [tpc EXCEPT ![t] = "inited"]
    /\ UNCHANGED <<initial_limit, remaining_points_index, mutex, poisoned, tmod, tidx,
                   orig_info, tstart_info, assignments, rewriters, gfm_panicked>>
    /\ UNCHANGED <<feedVars, execVars, isoVars, parVars>>

\* module_info.exports.insert(..); the guard is dropped at the end of the function.
TmiExport(t) ==
    /\ tpc[t] = "inited"
    /\ module_info' = [module_info EXCEPT ![tmod[t]] = InsertExport(@, tidx[t])]
    /\ mutex' = IF mutex = t THEN 0 ELSE mutex
    /\ tpc' = [tpc EXCEPT ![t] = "done"]
    /\ UNCHANGED <<initial_limit, remaining_points_index, poisoned, tmod, tidx,
                   orig_info, tstart_info, assignments, rewriters, gfm_panicked>>
    /\ UNCHANGED <<feedVars, execVars, isoVars, parVars>>

\* generate_function_middleware falling back to index 0 when the slot is
\* empty.
GenerateFunctionMiddlewareUnchecked ==
    /\ LockAvailable(mutex)
    /\ IF poisoned
       THEN /\ gfm_panicked' = TRUE
            /\ UNCHANGED <<poisoned, rewriters>>
       ELSE /\ rewriters' = rewriters \cup
                   {NewFunctionMetering(IF IsSome(remaining_points_index)
                                        THEN remaining_points_index[1] ELSE 0)}
            /\ UNCHANGED <<poisoned, gfm_panicked>>
    /\ UNCHANGED <<initial_limit, remaining_points_index, mutex, tpc, tmod, tidx,
                   module_info, orig_info, tstart_info, assignments>>
    /\ UNCHANGED <<feedVars, execVars, isoVars, parVars>>

\* Metering::generate_function_middleware: lock().unwrap() panics on a
\* poisoned mutex; expect() panics on None while the guard is alive, which
\* poisons the mutex.
GenerateFunctionMiddleware ==
    /\ LockAvailable(mutex)
    /\ IF poisoned
       THEN /\ gfm_panicked' = TRUE
            /\ UNCHANGED <<poisoned, rewriters>>
       ELSE IF ~IsSome(remaining_points_index)
       THEN /\ gfm_panicked' = TRUE
            /\ poisoned' = TRUE
            /\ UNCHANGED rewriters
       ELSE /\ rewriters' = rewriters \cup {NewFunctionMetering(remaining_points_index[1])}
            /\ UNCHANGED <<poisoned, gfm_panicked>>
    /\ UNCHANGED <<initial_limit, remaining_points_index, mutex, tpc, tmod, tidx,
                   module_info, orig_info, tstart_info, assignments>>
    /\ UNCHANGED <<feedVars, execVars, isoVars, parVars>>

(***************************************************************************)
(* Instances and the runtime accessors.                                    *)
(***************************************************************************)
Value(ty, v) == [ty |-> ty, v |-> v]

NoInstance == [live |-> FALSE, module |-> 0, exports |-> << >>, globals |-> << >>, vals |-> << >>]

\* The value a global initializer evaluates to.
InitValue(init) ==
    CASE init.k = "I64Const" -> Value("I64", init.v)
      [] init.k = "I32Const" -> Value("I32", init.v)
      [] OTHER               -> Value("F32", init.v)

\* Instance::new: an imported global takes the value the import has (0
\* here), a local global the value of its initializer.
NewInstance(m, info) ==
    [live    |-> TRUE,
     module  |-> m,
     exports |-> info.exports,
     globals |-> info.globals,
     vals    |-> [i \in 1 .. Len(info.globals) |->
                    IF i <= info.num_imported_globals
                    THEN Value(info.globals[i].ty, 0)
                    ELSE InitValue(info.global_initializers[i - info.num_imported_globals])]]

Ok(v) == [ok |-> TRUE, v |-> v]

Err == [ok |-> FALSE, v |-> 0]

\* instance.exports.get_global(name): the export exists and is a global.
GetGlobal(inst, name) ==
    IF \E i \in DOMAIN inst.exports :
          inst.exports[i].name = name /\ inst.exports[i].index.kind = "Global"
    THEN Ok(inst.exports[CHOOSE i \in DOMAIN inst.exports :
                            inst.exports[i].name = name].index.index)
    ELSE Err

\* u64::try_from(Value): only an I64 converts, by `as u64`.
TryIntoU64(val) == IF val.ty = "I64" THEN Ok(AsU64(val.v)) ELSE Err

\* Value::from(u64): I64(points as i64).
ValueFromU64(u) == Value("I64", AsI64(u))

\* get_remaining_points: Err stands for the panic of either expect().
get_remaining_points(inst) ==
    LET g == GetGlobal(inst, REMAINING_POINTS_NAME)
    IN  IF ~g.ok THEN Err ELSE TryIntoU64(inst.vals[g.v + 1])

\* Global::set: the global is mutable and the value has its type.
GlobalSetChecked(inst, g, val) ==
    inst.globals[g + 1].mutability = "Var" /\ inst.globals[g + 1].ty = val.ty

\* set_remaining_points writing the global without Global::set's checks.
set_remaining_points_unchecked(inst, pts) ==
    LET g == GetGlobal(inst, REMAINING_POINTS_NAME)
    IN  IF g.ok
        THEN [ok |-> TRUE,
              inst |-> [inst EXCEPT !.vals[g.v + 1] = ValueFromU64(pts)]]
        ELSE [ok |-> FALSE, inst |-> inst]

\* set_remaining_points adding the points to the value the global holds.
set_remaining_points_adding(inst, pts) ==
    LET g == GetGlobal(inst, REMAINING_POINTS_NAME)
    IN  IF g.ok /\ GlobalSetChecked(inst, g.v, ValueFromU64(pts))
        THEN [ok |-> TRUE,
              inst |-> [inst EXCEPT !.vals[g.v + 1] =
                           Value("I64", WrapI64(@.v + AsI64(pts)))]]
        ELSE [ok |-> FALSE, inst |-> inst]

\* set_remaining_points: the instance afterwards; ok = FALSE is a panic.
set_remaining_points(inst, pts) ==
    LET g == GetGlobal(inst, REMAINING_POINTS_NAME)
    IN  IF g.ok /\ GlobalSetChecked(inst, g.v, ValueFromU64(pts))
        THEN [ok |-> TRUE,
              inst |-> [inst EXCEPT !.vals[g.v + 1] = ValueFromU64(pts)]]
        ELSE [ok |-> FALSE, inst |-> inst]

\* Instance::new on a module no call is working on.
Instantiate(m) ==
    /\ Borrowable(m)
    /\ instance' = NewInstance(m, module_info[m])
    /\ UNCHANGED <<code, status, frames, stack, start_points, executed_cost,
                   passed_cost, block_start_points, at_edge, after_refill,
                   host_panicked, observed>>
    /\ UNCHANGED <<feedVars, coordVars, isoVars, parVars>>

(***************************************************************************)
(* Execution of the rewritten code.  Operand values are concrete; a branch *)
(* to a block label lands behind the block's End, a branch to a loop label *)
(* behind the Loop, a false `if` behind its Else (or behind its End).      *)
(***************************************************************************)
\* The function bodies of the modules that are compiled and run; function 1
\* is the exported one, function 2 the callee and the only table entry.
Programs ==
    << \* the tests' add_one
       << << Op("LocalGet"), OpA("I32Const", 1), Op("I32Add"), Op("End") >> >>,
       \* if / else
       << << Op("LocalGet"), Op("If"), OpA("I32Const", 1), Op("Drop"), Op("Else"),
             Op("LocalGet"), Op("Drop"), Op("End"), Op("End") >> >>,
       \* if without else
       << << OpA("I32Const", 1), Op("Drop"), Op("LocalGet"), Op("If"),
             OpA("I32Const", 1), Op("Drop"), Op("End"), Op("End") >> >>,
       \* block and br_if
       << << Op("Block"), Op("LocalGet"), OpA("BrIf", 0), OpA("I32Const", 1),
             Op("Drop"), Op("End"), OpA("I32Const", 1), Op("Drop"), Op("End") >> >>,
       \* loop
       << << OpA("I32Const", 1), Op("Drop"), Op("Loop"), Op("LocalGet"),
             OpA("BrIf", 0), Op("End"), Op("End") >> >>,
       \* br
       << << Op("Block"), OpA("I32Const", 1), Op("Drop"), OpA("Br", 0),
             OpA("I32Const", 1), Op("Drop"), Op("End"), Op("LocalGet"), Op("Drop"),
             Op("End") >> >>,
       \* br_table
       << << Op("Block"), Op("Block"), Op("LocalGet"), OpA("BrTable", 1), Op("End"),
             OpA("I32Const", 1), Op("Drop"), Op("End"), Op("End") >> >>,
       \* call
       << << OpA("I32Const", 1), Op("Drop"), OpA("Call", 2), Op("LocalGet"),
             Op("Drop"), Op("End") >>,
          << OpA("I32Const", 1), OpA("I32Const", 1), Op("I32Add"), Op("Drop"),
             Op("End") >> >>,
       \* call_indirect
       << << OpA("I32Const", 0), Op("CallIndirect"), Op("LocalGet"), Op("Drop"),
             Op("End") >>,
          << OpA("I32Const", 1), Op("Drop"), Op("Return"), Op("End") >> >>,
       \* return
       << << Op("LocalGet"), Op("If"), OpA("I32Const", 1), Op("Drop"), Op("Return"),
             Op("End"), OpA("I32Const", 1), Op("Drop"), Op("End") >> >> >>

Openers == {"Block", "Loop", "If"}

\* Position of the End that closes the block whose body starts at i.
RECURSIVE ScanEnd(_, _, _)
ScanEnd(body, i, depth) ==
    IF body[i].op.k \in Openers THEN ScanEnd(body, i + 1, depth + 1)
    ELSE IF body[i].op.k = "End"
         THEN (IF depth = 0 THEN i ELSE ScanEnd(body, i + 1, depth - 1))
         ELSE ScanEnd(body, i + 1, depth)

MatchEnd(body, pc) == ScanEnd(body, pc + 1, 0)

\* Position of the Else of the `if` whose body starts at i; 0 if it has none.
RECURSIVE ScanElse(_, _, _)
ScanElse(body, i, depth) ==
    IF body[i].op.k \in Openers THEN ScanElse(body, i + 1, depth + 1)
    ELSE IF body[i].op.k = "End"
         THEN (IF depth = 0 THEN 0 ELSE ScanElse(body, i + 1, depth - 1))
         ELSE IF body[i].op.k = "Else" /\ depth = 0 THEN i
         ELSE ScanElse(body, i + 1, depth)

MatchElse(body, pc) == ScanElse(body, pc + 1, 0)

Running == status = "running"

Top == frames[Len(frames)]

Body == code[Top.fn]

Cur == Body[Top.pc]

Kind == Cur.op.k

\* The remaining-points global of the instance.
PointsIndex == remaining_points_index[1]

Points == instance.vals[PointsIndex + 1].v

Take(seq, n) == SubSeq(seq, 1, n)

StackTop == stack[Len(stack)]

StackSecond == stack[Len(stack) - 1]

Pop(n) == Take(stack, Len(stack) - n)

SetTop(f) == [frames EXCEPT ![Len(frames)] = f]

Advance == SetTop([Top EXCEPT !.pc = @ + 1])

\* The operators of the original code that are sources or targets of a
\* control-flow edge.
EdgeKinds == BoundaryKinds \cup {"If"}

\* Bound on the cost one call may execute (keeps free loops finite).
MaxExecutedCost == 2 * Modulus

\* History of the step that executes Cur.
Account ==
    /\ Cur.inj \/ executed_cost + Cost(cost_function, Cur.op) <= MaxExecutedCost
    /\ executed_cost' = IF Cur.inj THEN executed_cost
                        ELSE executed_cost + Cost(cost_function, Cur.op)
    /\ at_edge' = (~Cur.inj /\ Kind \in EdgeKinds)
    /\ block_start_points' = IF ~Cur.inj /\ IsBoundary(Cur.op)
                             THEN AsU64(Points) ELSE block_start_points

ExecFixed ==
    UNCHANGED <<feedVars, coordVars, isoVars, parVars, code, start_points, after_refill,
                host_panicked, observed>>

\* Leave the function: pop the frame, drop its operands.
ReturnFrames == Take(frames, Len(frames) - 1)

DoReturn ==
    /\ frames' = ReturnFrames
    /\ stack' = Take(stack, Top.base)
    /\ status' = IF Len(frames) = 1 THEN "returned" ELSE status

\* Take the branch to label n.
DoBranch(n, operands) ==
    LET target == Len(Top.ctrl) - n
    IN  IF target < 1
        THEN /\ frames' = ReturnFrames
             /\ stack' = Take(operands, Top.base)
             /\ status' = IF Len(frames) = 1 THEN "returned" ELSE status
        ELSE LET c == Top.ctrl[target]
             IN  /\ stack' = Take(operands, c.height)
                 /\ status' = status
                 /\ frames' = IF c.kind = "Loop"
                              THEN SetTop([Top EXCEPT !.pc = c.start + 1,
                                                      !.ctrl = Take(@, target)])
                              ELSE SetTop([Top EXCEPT !.pc = MatchEnd(Body, c.start) + 1,
                                                      !.ctrl = Take(@, target - 1)])

PushCtrl(kind, height) ==
    Append(Top.ctrl, [kind |-> kind, start |-> Top.pc, height |-> height])

\* The host calls the exported function with budget Points.
CallExport(arg) ==
    /\ status # "running"
    /\ instance.live
    /\ ~host_panicked
    /\ status' = "running"
    /\ frames' = << [fn |-> 1, pc |-> 1, ctrl |-> << >>, base |-> 0, local |-> arg] >>
    /\ stack' = << >>
    /\ start_points' = AsU64(Points)
    /\ executed_cost' = 0
    /\ passed_cost' = 0
    /\ block_start_points' = AsU64(Points)
    /\ at_edge' = FALSE
    /\ UNCHANGED <<feedVars, coordVars, isoVars, parVars, instance, code, after_refill,
                   host_panicked, observed>>

\* The host calls set_remaining_points between two calls; a panic of one of
\* its expect() leaves the instance as it was.
SetRemainingPoints(pts) ==
    /\ status # "running"
    /\ instance.live
    /\ ~host_panicked
    /\ LET r == set_remaining_points(instance, pts)
       IN  /\ instance' = r.inst
           /\ host_panicked' = ~r.ok
           /\ after_refill' = (after_refill \/ (r.ok /\ status = "trapped"))
    /\ status' = "idle"
    /\ UNCHANGED <<code, frames, stack, start_points, executed_cost, passed_cost,
                   block_start_points, at_edge, observed>>
    /\ UNCHANGED <<feedVars, coordVars, isoVars, parVars>>

ExecLocalGet ==
    /\ Running /\ Kind = "LocalGet" /\ Account
    /\ stack' = Append(stack, Value("I32", Top.local))
    /\ frames' = Advance
    /\ UNCHANGED <<instance, status, passed_cost>> /\ ExecFixed

ExecI32Const ==
    /\ Running /\ Kind = "I32Const" /\ Account
    /\ stack' = Append(stack, Value("I32", Cur.op.a))
    /\ frames' = Advance
    /\ UNCHANGED <<instance, status, passed_cost>> /\ ExecFixed

ExecI32Add ==
    /\ Running /\ Kind = "I32Add" /\ Account
    /\ stack' = Append(Pop(2), Value("I32", (StackSecond.v + StackTop.v) % Modulus))
    /\ frames' = Advance
    /\ UNCHANGED <<instance, status, passed_cost>> /\ ExecFixed

ExecDrop ==
    /\ Running /\ Kind = "Drop" /\ Account
    /\ stack' = Pop(1)
    /\ frames' = Advance
    /\ UNCHANGED <<instance, status, passed_cost>> /\ ExecFixed

\* block, loop: enter the block.
ExecBlock ==
    /\ Running /\ Kind \in {"Block", "Loop"} /\ Account
    /\ frames' = SetTop([Top EXCEPT !.pc = @ + 1, !.ctrl = PushCtrl(Kind, Len(stack))])
    /\ UNCHANGED <<instance, status, stack, passed_cost>> /\ ExecFixed

ExecIf ==
    /\ Running /\ Kind = "If" /\ Account
    /\ stack' = Pop(1)
    /\ frames' =
         IF StackTop.v # 0
         THEN SetTop([Top EXCEPT !.pc = @ + 1, !.ctrl = PushCtrl("If", Len(stack) - 1)])
         ELSE IF MatchElse(Body, Top.pc) > 0
         THEN SetTop([Top EXCEPT !.pc = MatchElse(Body, Top.pc) + 1,
                                 !.ctrl = PushCtrl("If", Len(stack) - 1)])
         ELSE SetTop([Top EXCEPT !.pc = MatchEnd(Body, Top.pc) + 1])
    /\ UNCHANGED <<instance, status, passed_cost>> /\ ExecFixed

\* else, reached at the end of the `then` branch: leave the `if`.
ExecElse ==
    /\ Running /\ Kind = "Else" /\ Account
    /\ DoBranch(0, stack)
    /\ UNCHANGED <<instance, passed_cost>> /\ ExecFixed

\* end of a block, or of the function.
ExecEnd ==
    /\ Running /\ Kind = "End" /\ Account
    /\ IF Top.ctrl = << >>
       THEN DoReturn
       ELSE /\ frames' = SetTop([Top EXCEPT !.pc = @ + 1,
                                            !.ctrl = Take(@, Len(@) - 1)])
            /\ UNCHANGED <<stack, status>>
    /\ UNCHANGED <<instance, passed_cost>> /\ ExecFixed

ExecBr ==
    /\ Running /\ Kind = "Br" /\ Account
    /\ DoBranch(Cur.op.a, stack)
    /\ UNCHANGED <<instance, passed_cost>> /\ ExecFixed

ExecBrIf ==
    /\ Running /\ Kind = "BrIf" /\ Account
    /\ IF StackTop.v # 0
       THEN DoBranch(Cur.op.a, Pop(1))
       ELSE /\ stack' = Pop(1)
            /\ frames' = Advance
            /\ UNCHANGED status
    /\ UNCHANGED <<instance, passed_cost>> /\ ExecFixed

\* br_table with labels 0 .. a-1 and default label a.
ExecBrTable ==
    /\ Running /\ Kind = "BrTable" /\ Account
    /\ DoBranch(IF StackTop.v < Cur.op.a THEN StackTop.v ELSE Cur.op.a, Pop(1))
    /\ UNCHANGED <<instance, passed_cost>> /\ ExecFixed

EnterFunction(f, operands) ==
    /\ frames' = Append(Advance, [fn |-> f, pc |-> 1, ctrl |-> << >>,
                                  base |-> Len(operands), local |-> 0])
    /\ stack' = operands

ExecCall ==
    /\ Running /\ Kind = "Call" /\ Account
    /\ EnterFunction(Cur.op.a, stack)
    /\ UNCHANGED <<instance, status, passed_cost>> /\ ExecFixed

ExecCallIndirect ==
    /\ Running /\ Kind = "CallIndirect" /\ Account
    /\ EnterFunction(2, Pop(1))
    /\ UNCHANGED <<instance, status, passed_cost>> /\ ExecFixed

ExecReturn ==
    /\ Running /\ Kind = "Return" /\ Account
    /\ DoReturn
    /\ UNCHANGED <<instance, passed_cost>> /\ ExecFixed

ExecGlobalGet ==
    /\ Running /\ Kind = "GlobalGet" /\ Account
    /\ stack' = Append(stack, instance.vals[Cur.op.a + 1])
    /\ frames' = Advance
    /\ UNCHANGED <<instance, status, passed_cost>> /\ ExecFixed

ExecI64Const ==
    /\ Running /\ Kind = "I64Const" /\ Account
    /\ stack' = Append(stack, Value("I64", Cur.op.a))
    /\ frames' = Advance
    /\ UNCHANGED <<instance, status, passed_cost>> /\ ExecFixed

\* i64.lt_u / i64.lt_s: 1 if the second operand from the top is less than the top.
ExecI64Lt ==
    /\ Running /\ Kind \in {"I64LtU", "I64LtS"} /\ Account
    /\ LET less == IF Kind = "I64LtU"
                   THEN AsU64(StackSecond.v) < AsU64(StackTop.v)
                   ELSE StackSecond.v < StackTop.v
       IN  /\ stack' = Append(Pop(2), Value("I32", IF less THEN 1 ELSE 0))
           /\ passed_cost' = IF Cur.inj /\ ~less
                             THEN passed_cost + AsU64(StackTop.v) ELSE passed_cost
    /\ frames' = Advance
    /\ UNCHANGED <<instance, status>> /\ ExecFixed

ExecI64Sub ==
    /\ Running /\ Kind = "I64Sub" /\ Account
    /\ stack' = Append(Pop(2), Value("I64", WrapI64(StackSecond.v - StackTop.v)))
    /\ frames' = Advance
    /\ UNCHANGED <<instance, status, passed_cost>> /\ ExecFixed

ExecGlobalSet ==
    /\ Running /\ Kind = "GlobalSet" /\ Account
    /\ instance' = [instance EXCEPT !.vals[Cur.op.a + 1] = StackTop]
    /\ stack' = Pop(1)
    /\ frames' = Advance
    /\ UNCHANGED <<status, passed_cost>> /\ ExecFixed

\* unreachable: trap.
ExecUnreachable ==
    /\ Running /\ Kind = "Unreachable" /\ Account
    /\ status' = "trapped"
    /\ UNCHANGED <<instance, frames, stack, passed_cost>> /\ ExecFixed

(***************************************************************************)
(* The rewriter fed one operator at a time.                                *)
(***************************************************************************)
MaxBody == 3

\* The operators fed: every boundary kind, the block openers that are not
\* boundaries, operators with and without a cost, and a global.get of the
\* original code.
FeedAlphabet ==
    {Op(k) : k \in BoundaryKinds \cup
                   {"If", "Block", "LocalGet", "I32Const", "I32Add", "GlobalGet"}}

\* FunctionMetering::feed; the overflow of `+=` panics in a build with
\* overflow checks and wraps in one without.
Feed(op) ==
    /\ fstatus = "ok"
    /\ Len(input) < MaxBody
    /\ IF overflow_checks /\ FeedOverflows(fm, cost_function, op)
       THEN /\ fstatus' = "panicked"
            /\ UNCHANGED <<fm, input, output>>
       ELSE /\ fm' = FeedStep(fm, cost_function, op).fm
            /\ output' = output \o FeedStep(fm, cost_function, op).out
            /\ input' = Append(input, op)
            /\ UNCHANGED fstatus
    /\ UNCHANGED <<cost_function, overflow_checks>>
    /\ UNCHANGED <<coordVars, execVars, isoVars, parVars>>

(***************************************************************************)
(* Initial states and specifications.                                      *)
(***************************************************************************)
\* A Metering whose transform_module_info has run once, on module 1.
CoordAfterTransform(info, limit) ==
    /\ initial_limit = limit
    /\ remaining_points_index = Some(NextGlobalIndex(info))
    /\ mutex = 0
    /\ poisoned = FALSE
    /\ tpc = [t \in Threads |-> IF t = 1 THEN "done" ELSE "idle"]
    /\ tmod = [t \in Threads |-> 1]
    /\ tidx = [t \in Threads |-> IF t = 1 THEN NextGlobalIndex(info) ELSE 0]
    /\ module_info = [m \in Modules |->
                        IF m = 1 THEN TransformedInfo(info, limit) ELSE ModuleInfos[1]]
    /\ orig_info = [m \in Modules |-> IF m = 1 THEN info ELSE ModuleInfos[1]]
    /\ tstart_info = [t \in Threads |-> info]
    /\ assignments = 1
    /\ rewriters = {NewFunctionMetering(NextGlobalIndex(info))}
    /\ gfm_panicked = FALSE

\* No function is being rewritten.
FeedFresh(cf, idx) ==
    /\ cost_function = cf
    /\ overflow_checks = FALSE
    /\ fm = NewFunctionMetering(idx)
    /\ input = << >>
    /\ output = << >>
    /\ fstatus = "ok"

\* No second module is being compiled.
IsoIdle ==
    /\ meterings = << >>
    /\ worlds = << >>
    /\ solo = << >>

\* No function is being rewritten in parallel with another.
ParIdle ==
    /\ function_bodies = << >>
    /\ function_meterings = << >>
    /\ reader_states = << >>

\* Nothing is running.
ExecIdle ==
    /\ status = "idle"
    /\ frames = << >>
    /\ stack = << >>
    /\ start_points = 0
    /\ executed_cost = 0
    /\ passed_cost = 0
    /\ block_start_points = 0
    /\ at_edge = FALSE
    /\ after_refill = FALSE
    /\ host_panicked = FALSE
    /\ observed = << >>

\* A rewriter just returned by generate_function_middleware.
InitFeed ==
    /\ \E i \in {1, 3} : CoordAfterTransform(ModuleInfos[i], 0)
    /\ cost_function \in CostFns
    /\ overflow_checks \in BOOLEAN
    /\ fm = NewFunctionMetering(remaining_points_index[1])
    /\ input = << >>
    /\ output = << >>
    /\ fstatus = "ok"
    /\ instance = NoInstance
    /\ code = << >>
    /\ ExecIdle
    /\ IsoIdle
    /\ ParIdle

NextFeed == \E op \in FeedAlphabet : Feed(op)

SpecFeed == InitFeed /\ [][NextFeed]_vars

\* A Metering just built by Metering::new, and the modules to compile.
InitCoord ==
    /\ initial_limit \in U64
    /\ remaining_points_index = None
    /\ mutex = 0
    /\ poisoned = FALSE
    /\ tpc = [t \in Threads |-> "idle"]
    /\ tmod = [t \in Threads |-> 1]
    /\ tidx = [t \in Threads |-> 0]
    /\ module_info \in [Modules -> {ModuleInfos[i] : i \in DOMAIN ModuleInfos}]
    /\ orig_info = module_info
    /\ tstart_info = [t \in Threads |-> module_info[1]]
    /\ assignments = 0
    /\ rewriters = {}
    /\ gfm_panicked = FALSE
    /\ FeedFresh(1, 0)
    /\ instance = NoInstance
    /\ code = << >>
    /\ ExecIdle
    /\ IsoIdle
    /\ ParIdle

NextCoord ==
    \/ \E t \in Threads, m \in Modules : TmiLock(t, m)
    \/ \E t \in Threads : TmiCheck(t)
    \/ \E t \in Threads : TmiPushGlobal(t)
    \/ \E t \in Threads : TmiAssign(t)
    \/ \E t \in Threads : TmiPushInit(t)
    \/ \E t \in Threads : TmiExport(t)
    \/ GenerateFunctionMiddleware
    \/ \E m \in Modules : Instantiate(m)

SpecCoord == InitCoord /\ [][NextCoord]_vars

\* The module of the run: ModuleInfos[3] with the function bodies of one
\* program, transformed, rewritten and instantiated.
Init ==
    /\ \E limit \in U64 : CoordAfterTransform(ModuleInfos[3], limit)
    /\ \E cf \in CostFns : FeedFresh(cf, remaining_points_index[1])
    /\ \E p \in DOMAIN Programs :
          code = [f \in DOMAIN Programs[p] |->
                    Rewrite(remaining_points_index[1], cost_function, Programs[p][f])]
    /\ instance = NewInstance(1, module_info[1])
    /\ ExecIdle
    /\ IsoIdle
    /\ ParIdle

Next ==
    \/ \E arg \in {0, 1} : CallExport(arg)
    \/ ExecLocalGet
    \/ ExecI32Const
    \/ ExecI32Add
    \/ ExecDrop
    \/ ExecBlock
    \/ ExecIf
    \/ ExecElse
    \/ ExecEnd
    \/ ExecBr
    \/ ExecBrIf
    \/ ExecBrTable
    \/ ExecCall
    \/ ExecCallIndirect
    \/ ExecReturn
    \/ ExecGlobalGet
    \/ ExecI64Const
    \/ ExecI64Lt
    \/ ExecI64Sub
    \/ ExecGlobalSet
    \/ ExecUnreachable

Spec == Init /\ [][Next]_vars

\* The host calls get_remaining_points; a panic of one of its expect()
\* returns nothing.
GetRemainingPoints ==
    /\ status # "running"
    /\ instance.live
    /\ ~host_panicked
    /\ LET r == get_remaining_points(instance)
       IN  /\ host_panicked' = ~r.ok
           /\ observed' = IF r.ok THEN << r.v >> ELSE observed
    /\ UNCHANGED <<instance, code, status, frames, stack, start_points, executed_cost,
                   passed_cost, block_start_points, at_edge, after_refill>>
    /\ UNCHANGED <<feedVars, coordVars, isoVars, parVars>>

\* One step of the running call.
ExecStep ==
    \/ ExecLocalGet
    \/ ExecI32Const
    \/ ExecI32Add
    \/ ExecDrop
    \/ ExecBlock
    \/ ExecIf
    \/ ExecElse
    \/ ExecEnd
    \/ ExecBr
    \/ ExecBrIf
    \/ ExecBrTable
    \/ ExecCall
    \/ ExecCallIndirect
    \/ ExecReturn
    \/ ExecGlobalGet
    \/ ExecI64Const
    \/ ExecI64Lt
    \/ ExecI64Sub
    \/ ExecGlobalSet
    \/ ExecUnreachable

\* The engine keeps executing a call that has not ended; the host does
\* not touch the budget.
SpecLive == Init /\ [][Next]_vars /\ WF_vars(ExecStep)

\* An instance of a module compiled with the middleware, or of the same
\* module compiled without it, in the hands of a host that calls the
\* accessors.
InitAccess ==
    /\ \E i \in DOMAIN AccessInfos, limit \in {0, Half, Modulus - 1} :
          CoordAfterTransform(AccessInfos[i], limit)
    /\ FeedFresh(1, remaining_points_index[1])
    /\ code = << >>
    /\ instance \in {NewInstance(1, orig_info[1]), NewInstance(1, module_info[1])}
    /\ ExecIdle
    /\ IsoIdle
    /\ ParIdle

NextAccess ==
    \/ GetRemainingPoints
    \/ \E pts \in U64 : SetRemainingPoints(pts)

SpecAccess == InitAccess /\ [][NextAccess]_vars

\* The module of the tests' Metering::new(10, ..), with a host that also
\* calls set_remaining_points between the calls.
InitHost == Init /\ initial_limit = 10

NextHost ==
    \/ Next
    \/ \E pts \in U64 : SetRemainingPoints(pts)

SpecHost == InitHost /\ [][NextHost]_vars

(***************************************************************************)
(* Two modules, each compiled with a Metering of its own, instantiated and *)
(* driven by one host.  `solo` takes each module through the same calls in *)
(* a run in which the other module does not exist.                         *)
(***************************************************************************)
Worlds == {1, 2}

\* Every module compiled with one and the same Metering value.
MeteringOfShared(k) == 1

\* The Metering module k is compiled with: Metering::new gives every value
\* a slot and a mutex of its own.
MeteringOf(k) == k

NewMetering(limit, cf) ==
    [initial_limit |-> limit, cost_function |-> cf, slot |-> None, poisoned |-> FALSE]

NewWorld(info) ==
    [info |-> info, compiled |-> "no", code |-> << >>, inst |-> NoInstance,
     last |-> "none"]

Sys(m, w) == [m |-> m, w |-> w]

\* transform_module_info, from lock to unlock.
TransformWorld(m, w) ==
    IF m.poisoned
    THEN Sys(m, [w EXCEPT !.compiled = "panicked"])
    ELSE IF IsSome(m.slot)
    THEN Sys([m EXCEPT !.poisoned = TRUE], [w EXCEPT !.compiled = "panicked"])
    ELSE Sys([m EXCEPT !.slot = Some(NextGlobalIndex(w.info))],
             [w EXCEPT !.info = TransformedInfo(w.info, m.initial_limit),
                       !.compiled = "transformed"])

\* generate_function_middleware, and the body of add_one fed to the
\* rewriter it returns.
CompileWorld(m, w) ==
    IF m.poisoned
    THEN Sys(m, [w EXCEPT !.compiled = "panicked"])
    ELSE IF ~IsSome(m.slot)
    THEN Sys([m EXCEPT !.poisoned = TRUE], [w EXCEPT !.compiled = "panicked"])
    ELSE Sys(m, [w EXCEPT !.code = Rewrite(m.slot[1], m.cost_function, Programs[1][1]),
                          !.compiled = "done"])

\* A call of add_one: its body is one basic block, so the one sequence
\* injected before its End decides the call.
CallWorld(w) ==
    LET n == Len(w.code)
        g == w.code[n - 1].op.a + 1
        c == AsU64(w.code[n - 3].op.a)
    IN  IF ~w.code[n - 1].inj
        THEN [w EXCEPT !.last = "returned"]
        ELSE IF AsU64(w.inst.vals[g].v) < c
        THEN [w EXCEPT !.last = "trapped"]
        ELSE [w EXCEPT !.last = "returned",
                       !.inst.vals[g] = Value("I64", WrapI64(@.v - AsI64(c)))]

\* set_remaining_points on the instance of the module.
RefillWorld(w, pts) ==
    LET r == set_remaining_points(w.inst, pts)
    IN  [w EXCEPT !.inst = r.inst, !.last = IF r.ok THEN "none" ELSE "panicked"]

\* A step of module k, in the run with both modules and in its run alone.
StepBoth(k, both, alone) ==
    /\ meterings' = [meterings EXCEPT ![MeteringOf(k)] = both.m]
    /\ worlds' = [worlds EXCEPT ![k] = both.w]
    /\ solo' = [solo EXCEPT ![k] = alone]
    /\ UNCHANGED <<feedVars, coordVars, execVars, parVars>>

TransformModule(k) ==
    /\ worlds[k].compiled = "no"
    /\ StepBoth(k, TransformWorld(meterings[MeteringOf(k)], worlds[k]),
                   TransformWorld(solo[k].m, solo[k].w))

CompileFunctions(k) ==
    /\ worlds[k].compiled = "transformed"
    /\ StepBoth(k, CompileWorld(meterings[MeteringOf(k)], worlds[k]),
                   CompileWorld(solo[k].m, solo[k].w))

InstantiateModule(k) ==
    /\ worlds[k].compiled = "done"
    /\ ~worlds[k].inst.live
    /\ StepBoth(k, Sys(meterings[MeteringOf(k)],
                       [worlds[k] EXCEPT !.inst = NewInstance(k, worlds[k].info)]),
                   Sys(solo[k].m,
                       [solo[k].w EXCEPT !.inst = NewInstance(k, solo[k].w.info)]))

CallModule(k) ==
    /\ worlds[k].inst.live
    /\ worlds[k].last # "panicked"
    /\ StepBoth(k, Sys(meterings[MeteringOf(k)], CallWorld(worlds[k])),
                   Sys(solo[k].m, CallWorld(solo[k].w)))

RefillModule(k, pts) ==
    /\ worlds[k].inst.live
    /\ worlds[k].last # "panicked"
    /\ StepBoth(k, Sys(meterings[MeteringOf(k)], RefillWorld(worlds[k], pts)),
                   Sys(solo[k].m, RefillWorld(solo[k].w, pts)))

\* Module 1 is the tests' module with Metering::new(10, cost_function),
\* module 2 a module with globals of its own and another Metering.
InitTwo ==
    /\ \E limit \in {0, Modulus - 1}, cf \in {1, 4} :
          meterings = << NewMetering(10, 1), NewMetering(limit, cf) >>
    /\ worlds = << NewWorld(ModuleInfos[1]), NewWorld(ModuleInfos[3]) >>
    /\ solo = [k \in Worlds |-> Sys(meterings[MeteringOf(k)], worlds[k])]
    /\ CoordAfterTransform(ModuleInfos[1], 10)
    /\ FeedFresh(1, 0)
    /\ instance = NoInstance
    /\ code = << >>
    /\ ExecIdle
    /\ ParIdle

NextTwo ==
    \/ \E k \in Worlds : TransformModule(k)
    \/ \E k \in Worlds : CompileFunctions(k)
    \/ \E k \in Worlds : InstantiateModule(k)
    \/ \E k \in Worlds : CallModule(k)
    \/ \E k \in Worlds, pts \in U64 : RefillModule(k, pts)

SpecTwo == InitTwo /\ [][NextTwo]_vars

(***************************************************************************)
(* The functions of one module, compiled in parallel: the compiler asks    *)
(* the Metering for one rewriter per function and feeds each rewriter the  *)
(* operators of its function, in order, interleaved in any way with the    *)
(* feeding of the other function.                                          *)
(***************************************************************************)
Functions == {1, 2}

\* The function bodies of the catalogue, whichever module they belong to.
CatalogueBodies ==
    UNION {{Programs[p][f] : f \in DOMAIN Programs[p]} : p \in DOMAIN Programs}

\* One rewriter handed to every function.
FunctionMeteringOfShared(f) == 1

\* The rewriter of function f: generate_function_middleware boxes a new
\* FunctionMetering on every call.
FunctionMeteringOf(f) == f

\* The MiddlewareReaderState of a function nothing was read of.
NewReaderState == [fed |-> 0, operators |-> << >>]

\* generate_function_middleware for function f, on a Metering whose slot
\* is set and whose mutex is not poisoned (the panics are those of
\* GenerateFunctionMiddleware).
GenerateFunctionMiddlewareFor(f) ==
    /\ function_meterings[FunctionMeteringOf(f)] = None
    /\ LockAvailable(mutex)
    /\ ~poisoned
    /\ IsSome(remaining_points_index)
    /\ function_meterings' =
          [function_meterings EXCEPT ![FunctionMeteringOf(f)] =
              Some(NewFunctionMetering(remaining_points_index[1]))]
    /\ UNCHANGED <<function_bodies, reader_states>>
    /\ UNCHANGED <<feedVars, coordVars, execVars, isoVars>>

\* The rewriter of function f is fed the next operator of the function.
FeedFunction(f) ==
    /\ function_meterings[FunctionMeteringOf(f)] # None
    /\ reader_states[f].fed < Len(function_bodies[f])
    /\ LET op == function_bodies[f][reader_states[f].fed + 1]
           r  == FeedStep(function_meterings[FunctionMeteringOf(f)][1], cost_function, op)
       IN  /\ ~(overflow_checks /\ FeedOverflows(
                    function_meterings[FunctionMeteringOf(f)][1], cost_function, op))
           /\ function_meterings' =
                 [function_meterings EXCEPT ![FunctionMeteringOf(f)] = Some(r.fm)]
           /\ reader_states' =
                 [reader_states EXCEPT ![f] =
                     [fed |-> @.fed + 1, operators |-> @.operators \o r.out]]
    /\ UNCHANGED function_bodies
    /\ UNCHANGED <<feedVars, coordVars, execVars, isoVars>>

\* A module of two functions whose transform_module_info has run.
InitFunctions ==
    /\ \E i \in {1, 3} : CoordAfterTransform(ModuleInfos[i], 0)
    /\ \E cf \in CostFns : FeedFresh(cf, remaining_points_index[1])
    /\ function_bodies \in [Functions -> CatalogueBodies]
    /\ function_meterings = [r \in Functions |-> None]
    /\ reader_states = [f \in Functions |-> NewReaderState]
    /\ instance = NoInstance
    /\ code = << >>
    /\ ExecIdle
    /\ IsoIdle

NextFunctions ==
    \/ \E f \in Functions : GenerateFunctionMiddlewareFor(f)
    \/ \E f \in Functions : FeedFunction(f)

SpecFunctions == InitFunctions /\ [][NextFunctions]_vars

(***************************************************************************)
(* Properties of a metered execution (specification Spec).                 *)
(***************************************************************************)
Finished == status \in {"returned", "trapped"}

\* The first operator of the original code at or behind position i.
RECURSIVE NextOriginal(_, _)
NextOriginal(body, i) == IF body[i].inj THEN NextOriginal(body, i + 1) ELSE i

\* The boundary operator whose guard trapped.
PendingOp == Body[NextOriginal(Body, Top.pc)].op

\* The constant the guard that trapped compared the budget with.
GuardConstant == AsU64(Body[Top.pc - 3].op.a)

\* C1 (conservation law): a call whose executed operators cost C in total,
\* started with a budget B >= C, completes and leaves exactly B - C; so a
\* call that returned has B - C left, and a call trapped only if B is less
\* than the cost of the path up to and including the boundary operator
\* whose guard failed.
ConservationLaw ==
    /\ (status = "returned" /\ start_points >= executed_cost)
          => AsU64(Points) = start_points - executed_cost
    /\ status = "trapped"
          => start_points < executed_cost + Cost(cost_function, PendingOp)

EdgeCharged ==
    (status \in {"running", "returned"} /\ at_edge)
        => AsU64(Points) + executed_cost = start_points

\* C4: the injected subtraction runs only on operands with
\* remaining >= accumulated_cost as unsigned 64-bit values, the first of
\* them being the current value of the global; so the budget never wraps
\* and never exceeds the budget the call started with.
GuardedSubtraction ==
    /\ (Running /\ Cur.inj /\ Kind = "I64Sub")
          => /\ AsU64(StackSecond.v) >= AsU64(StackTop.v)
             /\ StackSecond.v = Points
    /\ status # "idle" => AsU64(Points) <= start_points

\* A subtraction about to run with budget and cost both >= 2^63.
SubtractionOfLargeValues ==
    /\ Running /\ Cur.inj /\ Kind = "I64Sub"
    /\ StackSecond.v < 0
    /\ StackTop.v < 0

\* C5: after the guard of a basic block fails, the remaining-points global
\* has the value it had when that block started executing.
TrapKeepsBlockStart ==
    status = "trapped" => AsU64(Points) = block_start_points

\* A guard failed in a block entered with less budget than the call had.
TrapInLaterBlock ==
    /\ status = "trapped"
    /\ block_start_points < start_points
    /\ AsU64(Points) = block_start_points

(***************************************************************************)
(* Properties of the module-level middleware (specification SpecCoord).    *)
(***************************************************************************)
\* Positions of transform_module_info behind its is_some() check.
PastCheck == {"checked", "pushed", "assigned", "inited", "done"}

HasRemainingPointsExport(info) ==
    \E i \in DOMAIN info.exports : info.exports[i].name = "remaining_points"

\* C6: the slot is assigned at most once; at most one invocation ever gets
\* past the check, the slot keeps the index that invocation stored, and an
\* invocation that failed left its module as it was when it began.
SlotAssignedOnce ==
    /\ assignments <= 1
    /\ Cardinality({t \in Threads : tpc[t] \in PastCheck}) <= 1
    /\ remaining_points_index # None
          => \E t \in Threads : /\ tpc[t] \in {"assigned", "inited", "done"}
                                /\ remaining_points_index = << tidx[t] >>
    /\ \A t \in Threads :
          tpc[t] = "panicked" => module_info[tmod[t]] = tstart_info[t]

\* A second invocation for the same module has failed.
SecondInvocationFailed ==
    \E t, u \in Threads :
        /\ tpc[t] = "done"
        /\ tpc[u] = "panicked"
        /\ tmod[t] = tmod[u]
        /\ remaining_points_index = << tidx[t] >>

\* C7: invocations racing on one Metering are serialized by the mutex: at
\* most one is between lock and unlock, the slot is written at most once,
\* whoever finds the mutex free sees either no slot or the slot of a
\* completed invocation, and once all have ended exactly one has completed
\* (none having been preceded by a panic of generate_function_middleware).
OneInvocationWins ==
    /\ Cardinality({t \in Threads :
                      tpc[t] \in {"locked", "checked", "pushed", "assigned", "inited"}}) <= 1
    /\ assignments <= 1
    /\ (mutex = 0 /\ remaining_points_index # None)
          => \E t \in Threads : /\ tpc[t] = "done"
                                /\ remaining_points_index = << tidx[t] >>
                                /\ HasRemainingPointsExport(module_info[tmod[t]])
    /\ ((\A t \in Threads : tpc[t] \in {"done", "panicked"}) /\ ~gfm_panicked)
          => /\ Cardinality({t \in Threads : tpc[t] = "done"}) = 1
             /\ assignments = 1

\* All invocations, on different modules, have ended.
RaceDecided ==
    /\ \A t \in Threads : tpc[t] \in {"done", "panicked"}
    /\ \E t, u \in Threads : tmod[t] # tmod[u] /\ tpc[t] = "done" /\ tpc[u] = "panicked"
    /\ ~gfm_panicked

\* C8: a completed transform_module_info has appended one mutable I64
\* global and one initializer holding initial_limit to its module, keeping
\* the earlier ones, and an instance of the module made afterwards reports
\* initial_limit through get_remaining_points.
AppendsBudgetGlobal ==
    /\ \A t \in Threads :
          tpc[t] = "done" =>
             LET before == tstart_info[t]
                 now    == module_info[tmod[t]]
                 n      == Len(before.globals)
                 k      == Len(before.global_initializers)
             IN  /\ Len(now.globals) = n + 1
                 /\ Take(now.globals, n) = before.globals
                 /\ now.globals[n + 1] = [ty |-> "I64", mutability |-> "Var"]
                 /\ Len(now.global_initializers) = k + 1
                 /\ Take(now.global_initializers, k) = before.global_initializers
                 /\ now.global_initializers[k + 1].k = "I64Const"
                 /\ AsU64(now.global_initializers[k + 1].v) = initial_limit
                 /\ now.num_imported_globals = before.num_imported_globals
                 /\ get_remaining_points(NewInstance(tmod[t], now)) = Ok(initial_limit)
    /\ (/\ instance.live
        /\ \E t \in Threads : tpc[t] = "done" /\ tmod[t] = instance.module
        /\ instance.globals = module_info[instance.module].globals)
          => get_remaining_points(instance) = Ok(initial_limit)

\* An instance of a transformed module that had globals of its own, with a
\* limit of 2^63 or more.
FreshInstanceOfTransformed ==
    /\ instance.live
    /\ \E t \in Threads : tpc[t] = "done" /\ tmod[t] = instance.module
    /\ instance.globals = module_info[instance.module].globals
    /\ Len(orig_info[instance.module].globals) > 0
    /\ initial_limit >= Half

\* C9: after a completed transform_module_info the module has exactly one
\* export named "remaining_points", it is the appended mutable I64 global,
\* an earlier export of that name is replaced without the export table
\* growing, and the exports under other names are unchanged.
ExportReplaced ==
    \A t \in Threads :
        tpc[t] = "done" =>
           LET before == tstart_info[t]
               now    == module_info[tmod[t]]
               named  == {i \in DOMAIN now.exports :
                             now.exports[i].name = "remaining_points"}
           IN  /\ Cardinality(named) = 1
               /\ \A i \in named :
                     /\ now.exports[i].index = [kind |-> "Global", index |-> tidx[t]]
                     /\ tidx[t] = Len(before.globals)
                     /\ now.globals[tidx[t] + 1] = [ty |-> "I64", mutability |-> "Var"]
               /\ Len(now.exports) =
                     Len(before.exports) + (IF HasRemainingPointsExport(before) THEN 0 ELSE 1)
               /\ \A i \in DOMAIN before.exports :
                     before.exports[i].name # "remaining_points"
                        => now.exports[i] = before.exports[i]

\* A transformed module that exported a function as "remaining_points",
\* next to an export under another name.
ShadowedExport ==
    \E t \in Threads :
        /\ tpc[t] = "done"
        /\ \E i \in DOMAIN tstart_info[t].exports :
              /\ tstart_info[t].exports[i].name = "remaining_points"
              /\ tstart_info[t].exports[i].index.kind = "Function"
        /\ Len(module_info[tmod[t]].exports) = 2

(***************************************************************************)
(* Properties of the rewriter (specification SpecFeed).                    *)
(***************************************************************************)
\* The operators of the output that were forwarded by push_operator.
Forwarded ==
    LET kept == SelectSeq(output, LAMBDA e : ~e.inj)
    IN  [i \in 1 .. Len(kept) |-> kept[i].op]

\* C10: the operators feed forwarded are exactly the operators fed, in
\* order and unchanged, and each was queued behind whatever was injected
\* for it: the output never ends with an injected operator.
ForwardsInOrder ==
    /\ Forwarded = input
    /\ output # << >> => ~output[Len(output)].inj

\* A whole body was fed and two sequences were injected.
FedWithInjections ==
    /\ fstatus = "ok"
    /\ Len(input) = MaxBody
    /\ Len(output) >= Len(input) + 20

\* C11: a feed call injects a sequence if and only if its operator is one of
\* the nine boundary kinds and accumulated_cost, with the operator's own
\* cost added, is greater than 0, and then it resets accumulated_cost; any
\* other call forwards the operator alone and keeps the sum.
InjectsOnlyAtCostlyBoundary ==
    [][ input' # input =>
          LET op    == input'[Len(input')]
              acc   == (fm.accumulated_cost + Cost(cost_function, op)) % Modulus
              added == Len(output') - Len(output)
              due   == /\ op.k \in {"Loop", "End", "Else", "Br", "BrTable", "BrIf",
                                     "Call", "CallIndirect", "Return"}
                       /\ acc > 0
          IN  /\ due <=> \E i \in Len(output) + 1 .. Len(output') : output'[i].inj
              /\ due => (added = 11 /\ fm'.accumulated_cost = 0)
              /\ ~due => (added = 1 /\ fm'.accumulated_cost = acc) ]_vars

\* A free boundary, a costly operator that is no boundary, and a boundary
\* that pays for it have been fed.
CostlyAndFreeBoundariesFed ==
    /\ cost_function = 1
    /\ input = << Op("End"), Op("LocalGet"), Op("Br") >>
    /\ Len(output) = 13
    /\ output[2].op.k = "LocalGet"
    /\ fm.accumulated_cost = 0

(***************************************************************************)
(* Further properties of a metered execution (specification Spec).         *)
(***************************************************************************)
\* Sum of the costs of the original operators from position i back to the
\* last operator that was charged (the one a sequence was injected for).
RECURSIVE CostBack(_, _, _)
CostBack(cf, body, i) ==
    IF i < 1 \/ body[i].inj THEN 0
    ELSE IF i > 1 /\ body[i - 1].inj THEN 0
    ELSE Cost(cf, body[i].op) + CostBack(cf, body, i - 1)

\* C12: when a boundary operator with a cost of its own is about to
\* execute, the sequence injected for it stands directly before it, the
\* amount of that sequence is the operator's own cost plus the costs
\* accumulated before it, and that amount has been deducted in the current
\* block: a call is paid before the callee is entered, a branch before the
\* edge is taken.
ChargedBeforeBoundary ==
    (/\ Running
     /\ ~Cur.inj
     /\ Kind \in {"Loop", "End", "Else", "Br", "BrTable", "BrIf",
                   "Call", "CallIndirect", "Return"}
     /\ Cost(cost_function, Cur.op) > 0)
        => /\ Top.pc > 10
           /\ Body[Top.pc - 1] = [op |-> [k |-> "GlobalSet", a |-> PointsIndex],
                                  inj |-> TRUE]
           /\ Body[Top.pc - 3].op.k = "I64Const"
           /\ AsU64(Body[Top.pc - 3].op.a) =
                  Cost(cost_function, Cur.op) + CostBack(cost_function, Body, Top.pc - 11)
           /\ AsU64(Points) = block_start_points - AsU64(Body[Top.pc - 3].op.a)

\* A call with a cost of its own is about to enter the callee, its charge
\* (with the costs before it) already deducted.
CallAboutToRunCharged ==
    /\ Running
    /\ ~Cur.inj
    /\ Kind = "Call"
    /\ Cost(cost_function, Cur.op) = 1
    /\ Len(frames) = 1
    /\ AsU64(Points) = start_points - 3

\* Every operator of the original code of the module is free.
AllFree ==
    \A f \in DOMAIN code : \A i \in DOMAIN code[f] :
        code[f][i].inj \/ Cost(cost_function, code[f][i].op) = 0

\* C13: if the cost function returns 0 for every operator of the code, the
\* rewritten bodies are the original bodies (nothing is injected), and no
\* step of a call changes the remaining-points global or traps, whatever
\* the budget.
FreeCodeUntouched ==
    /\ [](AllFree =>
            /\ \E p \in DOMAIN Programs :
                  /\ DOMAIN code = DOMAIN Programs[p]
                  /\ \A f \in DOMAIN code :
                        code[f] = [i \in DOMAIN Programs[p][f] |->
                                     [op |-> Programs[p][f][i], inj |-> FALSE]]
            /\ status # "trapped")
    /\ [][(AllFree /\ status = "running")
            => (instance' = instance /\ status' # "trapped")]_vars

\* A call of free code returned with a budget of 0.
FreeCallReturnedAtZero ==
    /\ AllFree
    /\ status = "returned"
    /\ start_points = 0
    /\ AsU64(Points) = 0

\* The original operators of the code.
Originals(body) == SelectSeq(body, LAMBDA e : ~e.inj)

\* No operator of the code branches on a value: every call executes the
\* same operators and so costs the same.
Unconditional ==
    \A f \in DOMAIN code : \A i \in DOMAIN code[f] :
        code[f][i].inj \/ code[f][i].op.k \notin {"If", "BrIf", "BrTable", "Loop"}

SingleBlock ==
    /\ DOMAIN code = {1}
    /\ LET orig == Originals(code[1])
       IN  /\ orig[Len(orig)].op.k = "End"
           /\ \A i \in 1 .. Len(orig) - 1 :
                 orig[i].op.k \notin EdgeKinds \cup {"Block"}

\* The amount of the sequence injected before the last operator of
\* function 1 (0 if there is none).
FinalCharge ==
    LET n == Len(code[1])
    IN  IF n > 10 /\ code[1][n - 1].inj THEN AsU64(code[1][n - 3].op.a) ELSE 0

IfElseOfEqualCost ==
    /\ cost_function = 1
    /\ DOMAIN code = {1}
    /\ Originals(code[1]) = [i \in DOMAIN Programs[2][1] |->
                                [op |-> Programs[2][1][i], inj |-> FALSE]]

\* The costs of no basic block of the code sum to 2^64 or more.
NoBlockOverflows ==
    \A f \in DOMAIN code : \A i \in DOMAIN code[f] :
        CostBack(cost_function, code[f], i) < Modulus

\* C15: after a trap and a set_remaining_points, a call of a function whose
\* every call costs c traps only for lack of budget, a call that succeeds
\* lowers the budget by exactly c (so a call with budget c leaves 0), and a
\* call with budget 0 that traps leaves 0.
RefillRestoresCalls ==
    (after_refill /\ NoBlockOverflows /\ (Unconditional \/ IfElseOfEqualCost)) =>
        /\ status = "returned"
              => /\ start_points >= executed_cost
                 /\ AsU64(Points) = start_points - executed_cost
        /\ status = "trapped"
              => /\ start_points < passed_cost + GuardConstant
                 /\ start_points = 0 => AsU64(Points) = 0

(***************************************************************************)
(* Termination (specification SpecLive).                                   *)
(***************************************************************************)
\* Every operator of the original code has a strictly positive cost.
StrictlyPositive ==
    \A f \in DOMAIN code : \A i \in DOMAIN code[f] :
        code[f][i].inj \/ Cost(cost_function, code[f][i].op) > 0

BudgetGlobals ==
    {instance.exports[i].index.index + 1 :
        i \in {j \in DOMAIN instance.exports :
                  /\ instance.exports[j].name = "remaining_points"
                  /\ instance.exports[j].index.kind = "Global"}}

\* The instance exports a 64-bit integer global as "remaining_points".
ExportsI64 == \E g \in BudgetGlobals : instance.globals[g].ty = "I64"

\* ... and that global is mutable.
ExportsMutableI64 ==
    \E g \in BudgetGlobals :
        instance.globals[g].ty = "I64" /\ instance.globals[g].mutability = "Var"

\* The accessor call panicked: nothing returned, nothing changed.
AccessorFailed ==
    /\ host_panicked'
    /\ instance' = instance
    /\ observed' = observed

RewriterNeedsSlot ==
    /\ [](rewriters # {} =>
            \E t \in Threads :
                /\ tpc[t] = "done"
                /\ remaining_points_index = << tidx[t] >>
                /\ rewriters = {[remaining_points_index |-> tidx[t],
                                 accumulated_cost |-> 0]})
    /\ [][remaining_points_index = << >> => rewriters' = {}]_vars
    /\ [][(remaining_points_index = << >> /\ tpc' = tpc /\ instance' = instance)
            => gfm_panicked']_vars

\* generate_function_middleware was called before any transform_module_info
\* and failed.
RewriterRefused ==
    /\ gfm_panicked
    /\ remaining_points_index = << >>
    /\ rewriters = {}
    /\ \A t \in Threads : tpc[t] = "idle"

(***************************************************************************)
(* Further properties of the rewriter (specification SpecFeed).            *)
(***************************************************************************)
\* Positions s .. s+9 of the output hold one injected sequence: the guard,
\* then the deduction, on one global and with one constant.
ShapeAt(out, s) ==
    /\ s >= 1
    /\ s + 9 <= Len(out)
    /\ \A j \in s .. s + 9 : out[j].inj
    /\ [j \in 1 .. 10 |-> out[s + j - 1].op] =
          << [k |-> "GlobalGet",   a |-> out[s].op.a],
             [k |-> "I64Const",    a |-> out[s + 1].op.a],
             [k |-> "I64LtU",      a |-> 0],
             [k |-> "If",          a |-> 0],
             [k |-> "Unreachable", a |-> 0],
             [k |-> "End",         a |-> 0],
             [k |-> "GlobalGet",   a |-> out[s].op.a],
             [k |-> "I64Const",    a |-> out[s + 1].op.a],
             [k |-> "I64Sub",      a |-> 0],
             [k |-> "GlobalSet",   a |-> out[s].op.a] >>

\* C20: every injected operator of the output belongs to a run of exactly
\* ten injected operators of the shape guard-then-deduct, standing between
\* two original operators (or at the start) and directly before the
\* boundary operator it was injected for; both halves carry the same
\* constant, which is the cost accumulated at that boundary, that operator
\* included, and is not 0.
SequencesWellFormed ==
    \A i \in DOMAIN output :
        output[i].inj =>
            \E s \in (i - 9) .. i :
                /\ ShapeAt(output, s)
                /\ s = 1 \/ ~output[s - 1].inj
                /\ s + 10 <= Len(output)
                /\ ~output[s + 10].inj
                /\ output[s + 10].op.k \in
                      {"Loop", "End", "Else", "Br", "BrTable", "BrIf",
                       "Call", "CallIndirect", "Return"}
                /\ output[s].op.a = fm.remaining_points_index
                /\ AsU64(output[s + 1].op.a) # 0
                /\ AsU64(output[s + 1].op.a) =
                      (Cost(cost_function, output[s + 10].op)
                         + CostBack(cost_function, output, s - 1)) % Modulus

\* Two sequences with different constants have been injected.
TwoSequencesInjected ==
    /\ cost_function = 2
    /\ input = << Op("LocalGet"), Op("Br"), Op("End") >>
    /\ Len(output) = 23
    /\ output[3].op.a = 2
    /\ output[9].op.a = 2
    /\ output[14].op.a = 1
    /\ output[20].op.a = 1

(***************************************************************************)
(* Isolation of two modules (specification SpecTwo).                       *)
(***************************************************************************)
\* What the host observes of module k: how its compilation and its last
\* call ended, and the budget get_remaining_points reports.
Observation(w) ==
    [compiled |-> w.compiled,
     last     |-> w.last,
     points   |-> IF w.inst.live THEN get_remaining_points(w.inst) ELSE Err]

\* C18: for two modules, each compiled with a Metering of its own, under
\* every interleaving of their compilations, calls, traps and refills the
\* state of each module, and with it every budget value observed on its
\* instance, is what it is in the run of that module alone.
BudgetsIndependent ==
    \A k \in Worlds :
        /\ worlds[k] = solo[k].w
        /\ Observation(worlds[k]) = Observation(solo[k].w)

\* Module 1 ran the tests' scenario down to the trap with 2 points left
\* while module 2, refilled in between, returned from a call with another
\* budget.
BothModulesRan ==
    /\ worlds[1].last = "trapped"
    /\ get_remaining_points(worlds[1].inst) = [ok |-> TRUE, v |-> 2]
    /\ worlds[2].last = "returned"
    /\ meterings[2].initial_limit = 0
    /\ get_remaining_points(worlds[2].inst) = [ok |-> TRUE, v |-> 5]

(***************************************************************************)
(* Properties of the functions compiled in parallel (SpecFunctions).       *)
(***************************************************************************)
\* The global index transform_module_info assigned: the one the thread
\* that completed it pushed, stored in the slot and exported.
AssignedSlot == tidx[CHOOSE t \in Threads : tpc[t] = "done"]

\* C21: every rewriter created from the Metering carries the global index
\* its transform_module_info assigned (the global appended to the module and
\* exported as "remaining_points"), and every GlobalGet and GlobalSet of
\* every sequence injected into any function of the module names that
\* index and no other.
RewritersShareSlot ==
    /\ remaining_points_index = << AssignedSlot >>
    /\ AssignedSlot = Len(module_info[1].globals) - 1
    /\ \E i \in DOMAIN module_info[1].exports :
          module_info[1].exports[i] =
              [name |-> "remaining_points",
               index |-> [kind |-> "Global", index |-> AssignedSlot]]
    /\ \A r \in Functions :
          function_meterings[r] # << >> =>
              function_meterings[r][1].remaining_points_index = AssignedSlot
    /\ \A f \in Functions : \A i \in DOMAIN reader_states[f].operators :
          LET e == reader_states[f].operators[i]
          IN  (e.inj /\ e.op.k \in {"GlobalGet", "GlobalSet"}) => e.op.a = AssignedSlot

\* Both functions of a module whose budget global has index 2 were
\* rewritten, each with an injected sequence.
BothFunctionsMetered ==
    /\ AssignedSlot = 2
    /\ \A f \in Functions :
          /\ reader_states[f].fed = Len(function_bodies[f])
          /\ \E i \in DOMAIN reader_states[f].operators :
                reader_states[f].operators[i] =
                    [op |-> [k |-> "GlobalSet", a |-> 2], inj |-> TRUE]
    /\ function_bodies[1] # function_bodies[2]

\* The blocks open behind the first n operators of a sequence: the
\* positions of their openers, innermost last.  An End closes the innermost
\* open block; the End of the function body finds none.
RECURSIVE OpenBlocks(_, _)
OpenBlocks(ops, n) ==
    IF n = 0 THEN << >>
    ELSE LET open == OpenBlocks(ops, n - 1)
         IN  IF ops[n].k \in {"Block", "Loop", "If"} THEN Append(open, n)
             ELSE IF ops[n].k = "End" /\ open # << >>
                  THEN SubSeq(open, 1, Len(open) - 1)
             ELSE open

\* The operators of a reader state's queue.
QueueOps(queue) == [j \in DOMAIN queue |-> queue[j].op]

\* The position in the original function of the forwarded operator queue[j].
OriginalIndex(queue, j) == Cardinality({i \in 1 .. j : ~queue[i].inj})

\* Operands an injected operator pops and pushes.
Pops(op) ==
    CASE op.k \in {"I64LtU", "I64Sub"} -> 2
      [] op.k \in {"If", "GlobalSet"}  -> 1
      [] OTHER                         -> 0

Pushes(op) == IF op.k \in {"GlobalGet", "I64Const", "I64LtU", "I64Sub"} THEN 1 ELSE 0

\* Operand stack height behind the first n operators of the run that starts
\* at queue[s], relative to the height at its start.
RECURSIVE HeightAfter(_, _, _)
HeightAfter(queue, s, n) ==
    IF n = 0 THEN 0
    ELSE HeightAfter(queue, s, n - 1) - Pops(queue[s + n - 1].op)
                                      + Pushes(queue[s + n - 1].op)

\* The injected run that starts at queue[s] opens one block, its `if`,
\* closes it with its own `end`, pops nothing it did not push and leaves
\* the operand stack as high as it found it.
BalancedAt(queue, s) ==
    LET ops    == QueueOps(queue)
        before == OpenBlocks(ops, s - 1)
    IN  /\ \A n \in 1 .. 10 :
              /\ queue[s + n - 1].inj
              /\ OpenBlocks(ops, s + n - 1) \in {before, Append(before, s + 3)}
              /\ HeightAfter(queue, s, n - 1) >= Pops(queue[s + n - 1].op)
        /\ ops[s + 3].k = "If"
        /\ OpenBlocks(ops, s + 3) = Append(before, s + 3)
        /\ ops[s + 5].k = "End"
        /\ OpenBlocks(ops, s + 9) = before
        /\ HeightAfter(queue, s, 4) = 0
        /\ HeightAfter(queue, s, 10) = 0

\* C22: every injected sequence is block-balanced (its one `if` is closed
\* by its own `end`) and stack-neutral, and at every original operator of
\* the transformed function the open blocks are the blocks open at that
\* operator in the original function, in the same order: the nesting depth
\* is the same and a relative branch depth designates the same original
\* block.
PreservesBlockStructure ==
    \A f \in Functions :
        LET queue == reader_states[f].operators
            ops   == QueueOps(queue)
            body  == function_bodies[f]
        IN  \A j \in DOMAIN queue :
                IF queue[j].inj
                THEN (j = 1 \/ ~queue[j - 1].inj) =>
                         (j + 10 <= Len(queue) /\ BalancedAt(queue, j))
                ELSE LET open == OpenBlocks(ops, j - 1)
                     IN  /\ \A b \in DOMAIN open : ~queue[open[b]].inj
                         /\ [b \in DOMAIN open |-> OriginalIndex(queue, open[b])]
                               = OpenBlocks(body, OriginalIndex(queue, j) - 1)
                         /\ body[OriginalIndex(queue, j)] = queue[j].op

\* The br_table inside two nested blocks was rewritten with every operator
\* costing 1: in the transformed function it stands behind an injected
\* sequence, at queue position 14, with the two original blocks open.
NestedBranchRewritten ==
    /\ cost_function = 2
    /\ function_bodies[1] = Programs[7][1]
    /\ reader_states[1].fed = Len(function_bodies[1])
    /\ reader_states[1].operators[14] = [op |-> [k |-> "BrTable", a |-> 1], inj |-> FALSE]
    /\ reader_states[1].operators[13].inj
    /\ OpenBlocks(QueueOps(reader_states[1].operators), 13) = << 1, 2 >>

\* C23: under every interleaving of the feed calls of the rewriters of two
\* functions, created from the same Metering, the queue of each function is
\* what one fresh rewriter produces when fed the same operators of that
\* function alone, and a rewriter that was fed nothing yet has
\* accumulated_cost = 0.
RewritersIndependent ==
    \A f \in Functions :
        /\ reader_states[f].operators =
              Rewrite(tidx[1], cost_function,
                      SubSeq(function_bodies[f], 1, reader_states[f].fed))
        /\ (function_meterings[f] # << >> /\ reader_states[f].fed = 0)
              => function_meterings[f][1].accumulated_cost = 0

\* The rewriters of the caller and of the callee are both in the middle of
\* a basic block, holding different accumulated costs, the caller's after
\* a sequence was injected for its call.
BothRewritersMidBlock ==
    /\ cost_function = 1
    /\ function_bodies = Programs[8]
    /\ reader_states[1].fed = 4
    /\ Len(reader_states[1].operators) = 14
    /\ function_meterings[1] = << [remaining_points_index |-> tidx[1], accumulated_cost |-> 1] >>
    /\ reader_states[2].fed = 2
    /\ function_meterings[2] = << [remaining_points_index |-> tidx[1], accumulated_cost |-> 2] >>

(***************************************************************************)
(* Accounting of the rewriter (specification SpecFeed).                    *)
(***************************************************************************)
\* The sum of the costs of the first n operators of a sequence, as a
\* mathematical integer.
RECURSIVE SumCosts(_, _, _)
SumCosts(cf, ops, n) ==
    IF n = 0 THEN 0 ELSE Cost(cf, ops[n]) + SumCosts(cf, ops, n - 1)

\* The positions of the constants of the deductions in a queue.
Deductions(queue) ==
    {i \in 1 .. Len(queue) - 1 :
        /\ queue[i].inj
        /\ queue[i].op.k = "I64Const"
        /\ queue[i + 1].op.k = "I64Sub"}

\* The sum of the constants of the deductions at the positions of a set,
\* read as unsigned integers.
RECURSIVE SumDeducted(_, _)
SumDeducted(queue, at) ==
    IF at = {} THEN 0
    ELSE LET i == CHOOSE j \in at : TRUE
         IN  AsU64(queue[i].op.a) + SumDeducted(queue, at \ {i})

\* C24: after any number of feed calls on one function the constants of
\* the deductions emitted so far plus accumulated_cost add up to the sum of
\* the costs of all operators fed so far; accumulated_cost is 0 right
\* after a call that emitted a sequence, and 0 once an End has been fed.
StaticAccounting ==
    /\ SumDeducted(output, Deductions(output)) + fm.accumulated_cost
          = SumCosts(cost_function, input, Len(input))
    /\ (Len(output) > 1 /\ output[Len(output) - 1].inj) => fm.accumulated_cost = 0
    /\ (input # << >> /\ input[Len(input)].k = "End") => fm.accumulated_cost = 0

\* No addition of a cost to accumulated_cost has exceeded the 64 bits: the
\* costs of the operators fed since the last sequence stay below 2^64.
NoFeedOverflowed ==
    \A n \in DOMAIN output :
        ~output[n].inj =>
            Cost(cost_function, output[n].op) + CostBack(cost_function, output, n - 1)
                < Modulus

\* C24, where no addition overflows.
StaticAccountingWithoutOverflow == NoFeedOverflowed => StaticAccounting

\* C25: for any cost function the amount charged for a basic block is the
\* mathematical sum of the costs of its operators, also when that sum is
\* 2^64 or more: no feed call aborts the compilation, accumulated_cost is
\* the sum of the costs fed since the last sequence, and the constant of
\* every deduction is the sum of the costs of the block it closes.
ChargesTrueBlockSum ==
    /\ fstatus = "ok"
    /\ fm.accumulated_cost = CostBack(cost_function, output, Len(output))
    /\ \A i \in Deductions(output) :
          AsU64(output[i].op.a) =
              Cost(cost_function, output[i + 3].op)
                  + CostBack(cost_function, output, i - 8)

(***************************************************************************)
(* Round trip of the accessors (specification SpecAccess).                 *)
(***************************************************************************)
\* The value of the global an instance exports as "remaining_points", read
\* as an unsigned integer.
Budget(inst) ==
    LET e == CHOOSE j \in DOMAIN inst.exports :
                 /\ inst.exports[j].name = "remaining_points"
                 /\ inst.exports[j].index.kind = "Global"
    IN  AsU64(inst.vals[inst.exports[e].index.index + 1].v)

\* C26: a set_remaining_points(instance, v) that returns leaves the
\* exported global holding v, whatever it held before and for every v from
\* 0 to 2^64 - 1, and changes nothing else of the instance; a
\* get_remaining_points that returns gives the value the global holds and
\* changes nothing of the instance.  A get that follows a set with no
\* metered code run in between therefore returns the v that was set.
AccessorRoundTrip ==
    /\ [][\A v \in U64 :
            (SetRemainingPoints(v) /\ ~host_panicked')
                => /\ Budget(instance') = v
                   /\ \E g \in DOMAIN instance.vals :
                         instance' = [instance EXCEPT
                                         !.vals[g] = [ty |-> "I64", v |-> instance'.vals[g].v]]]_vars
    /\ [][(GetRemainingPoints /\ ~host_panicked')
            => /\ instance' = instance
               /\ observed' = << Budget(instance) >>]_vars

\* On the instance of a module metered with an initial limit of 2^63 the
\* host set 2^64 - 1, read it back, and then set 0.
ReadBackThenOverwritten ==
    /\ initial_limit = Half
    /\ instance.globals = module_info[1].globals
    /\ observed = << Modulus - 1 >>
    /\ Budget(instance) = 0
    /\ ~host_panicked

====
